---- MODULE Spec2Model ----
(***************************************************************************)
(* A model of ImageGenerator.py: the scene randomisation, the collision    *)
(* test in the XY projection, the placement loop of the workpiece, the     *)
(* hand/gloves distance audit and the CSV log.                             *)
(*                                                                         *)
(* Numbers.  World coordinates, scale factors and thresholds are integers  *)
(* of a lattice; a rotation about z is a number of quarter turns, so that  *)
(* a rotated lattice point is a lattice point.  A length is kept exactly:  *)
(* the distance sqrt(n) is the record [kind |-> "float", sq |-> n].        *)
(***************************************************************************)
EXTENDS Integers, Sequences, FiniteSets, TLC

VARIABLES
    config,        \* the dictionary json.load returned (a function of its keys)
    scene_file,    \* the .blend file SceneSelection names
    csv,           \* rendered_data.csv of the output directory: its rows, or NoFile
    pc,            \* where main is
    err,           \* the exception that ended the run, "" if none
    i,             \* main's loop counter
    num_images,    \* main's num_images
    objects,       \* bpy.data.objects: name -> object
    camera,        \* the camera pose added by randomize_camera_and_light
    light,         \* the location of the light
    check1,        \* collision_check_scene's check1
    check2,        \* collision_check_scene's check2
    violation,     \* main's violation
    distance,      \* main's distance
    rendered,      \* what render_scene handed to the renderer in this iteration
    images,        \* the images rendered by this run
    appended,      \* the rows this run appended to the log
    rounds,        \* the resamples of this call of collision_check_scene (capped)
    runs,          \* the runs of the program against the output directory
    call,          \* a call of a pure function: its name and arguments
    ret            \* what the call returned

vars == <<config, scene_file, csv, pc, err, i, num_images, objects, camera, light,
          check1, check2, violation, distance, rendered, images, appended,
          rounds, runs, call, ret>>

\* The resamples counted before the count saturates.
MaxRounds == 2
\* The times the program is run against one output directory.
MaxRuns == 2

\* Then(v) for v the value of an expression, the expression evaluated once and
\* its value stored: a local variable of the code.
Eval(value, Then(_)) ==
    CHOOSE r \in { Then(v) : v \in {x \in {value} : x = x} } : TRUE

(***************************************************************************)
(* Vectors and transforms                                                  *)
(***************************************************************************)
Vector(x, y, z) == [x |-> x, y |-> y, z |-> z]

\* The transform an object's location, rotation_euler.z and scale compose to.
Transform(location, rotation, scale) ==
    [loc |-> location, rot |-> rotation, scale |-> scale]

\* A quarter turn about z, q times.
RECURSIVE Rotate(_, _)
Rotate(v, q) ==
    IF q = 0 THEN v ELSE Rotate(Vector(0 - v.y, v.x, v.z), q - 1)

\* matrix_world @ v
MatMul(m, v) ==
    LET s == Vector(m.scale.x * v.x, m.scale.y * v.y, m.scale.z * v.z)
        r == Rotate(s, m.rot)
    IN  Vector(m.loc.x + r.x, m.loc.y + r.y, m.loc.z + r.z)

(***************************************************************************)
(* Scene objects                                                           *)
(***************************************************************************)
\* What bpy.data.objects.get returns for a name the scene does not hold.
None == [type |-> "None"]

\* A pose of the worker's armature: the swing of each arm, in steps.
Pose(right, left) == [right |-> right, left |-> left]

RestPose == Pose(0, 0)

\* An object as the scene file holds it: its type, its mesh (vertices in local
\* coordinates), its location, rotation_euler.z and scale, the armature that
\* deforms it ("" if none).  matrix_world and eval_verts are what the last
\* evaluation of the dependency graph left: they lag the properties until the
\* next view_layer.update().
Object(type, verts, location, armature) ==
    [type |-> type, verts |-> verts,
     location |-> location, rotation |-> 0, scale |-> Vector(1, 1, 1),
     pose |-> RestPose, armature |-> armature,
     matrix_world |-> Transform(location, 0, Vector(1, 1, 1)),
     eval_verts |-> verts]

\* bpy.data.objects.get(name)
Get(scene, name) == IF name \in DOMAIN scene THEN scene[name] ELSE None

\* The mesh of an object under the pose of its armature: each arm's swing
\* carries the vertices along one axis.
Deform(verts, pose) ==
    [k \in DOMAIN verts |->
        Vector(verts[k].x + pose.right, verts[k].y + pose.left, verts[k].z)]

\* bpy.context.view_layer.update(): every object's world matrix and evaluated
\* mesh are recomputed from the properties written since.
view_layer_update(scene) ==
    [n \in DOMAIN scene |->
        LET o == scene[n]
        IN  [o EXCEPT
               !.matrix_world = Transform(o.location, o.rotation, o.scale),
               !.eval_verts =
                   IF o.armature \in DOMAIN scene
                   THEN Deform(o.verts, scene[o.armature].pose)
                   ELSE o.verts]]

(***************************************************************************)
(* Bounding area and collision test                                        *)
(***************************************************************************)
\* min(...) and max(...) over a list of numbers
MinOf(s) == CHOOSE m \in {s[k] : k \in DOMAIN s} : \A k \in DOMAIN s : m <= s[k]

MaxOf(s) == CHOOSE m \in {s[k] : k \in DOMAIN s} : \A k \in DOMAIN s : m >= s[k]

\* The x, y and z coordinates of a list of points.
Xs(points) == [k \in DOMAIN points |-> points[k].x]

Ys(points) == [k \in DOMAIN points |-> points[k].y]

Zs(points) == [k \in DOMAIN points |-> points[k].z]

\* The eight corners of a box, in the order of obj.bound_box.
Corners(x0, x1, y0, y1, z0, z1) ==
    << Vector(x0, y0, z0), Vector(x0, y0, z1), Vector(x0, y1, z1),
       Vector(x0, y1, z0), Vector(x1, y0, z0), Vector(x1, y0, z1),
       Vector(x1, y1, z1), Vector(x1, y1, z0) >>

\* obj.bound_box: the corners of the box around the mesh, in local coordinates.
bound_box(obj) ==
    Corners(MinOf(Xs(obj.verts)), MaxOf(Xs(obj.verts)),
            MinOf(Ys(obj.verts)), MaxOf(Ys(obj.verts)),
            MinOf(Zs(obj.verts)), MaxOf(Zs(obj.verts)))

\* [obj.matrix_world @ Vector(corner) for corner in obj.bound_box]
WorldCorners(matrix_world, box) ==
    [k \in DOMAIN box |-> MatMul(matrix_world, box[k])]

\* min_x, max_x, min_y, max_y over the corners.
AreaOf(bbox_corners) ==
    [min_x |-> MinOf(Xs(bbox_corners)), max_x |-> MaxOf(Xs(bbox_corners)),
     min_y |-> MinOf(Ys(bbox_corners)), max_y |-> MaxOf(Ys(bbox_corners))]

\* get_world_bounding_box_xy after its view_layer.update().
world_bounding_box_xy(obj) ==
    Eval(bound_box(obj),
         LAMBDA box :
           Eval(WorldCorners(obj.matrix_world, box),
                LAMBDA bbox_corners : AreaOf(bbox_corners)))

\* The box of the object called name in the updated scene.  A missing object
\* has no matrix_world: AttributeError.
BoxIn(synced, name) ==
    IF name \in DOMAIN synced
    THEN [raised |-> "", scene |-> synced,
          ret |-> world_bounding_box_xy(synced[name])]
    ELSE [raised |-> "AttributeError", scene |-> synced, ret |-> <<>>]

\* A get_world_bounding_box_xy that would read the box without updating the
\* scene first.
box_without_update(scene, name) == BoxIn(scene, name)

\* get_world_bounding_box_xy(obj): the scene is updated, then the box is read.
get_world_bounding_box_xy(scene, name) ==
    Eval(view_layer_update(scene), LAMBDA synced : BoxIn(synced, name))

\* A test that would leave the border of the area out.
point_strictly_within(point, min_x, max_x, min_y, max_y) ==
    (min_x < point.x /\ point.x < max_x) /\ (min_y < point.y /\ point.y < max_y)

\* is_point_within_xy_area(point, min_x, max_x, min_y, max_y)
is_point_within_xy_area(point, min_x, max_x, min_y, max_y) ==
    (min_x <= point.x /\ point.x <= max_x) /\ (min_y <= point.y /\ point.y <= max_y)

\* The loop of collision_check_objects over obj1.data.vertices from vertex k:
\* TRUE at the first vertex inside the area.
RECURSIVE AnyVertexInside(_, _, _)
AnyVertexInside(obj1, area, k) ==
    IF k > Len(obj1.verts) THEN FALSE
    ELSE LET world_vertex == MatMul(obj1.matrix_world, obj1.verts[k])
         IN  IF is_point_within_xy_area(world_vertex, area.min_x, area.max_x,
                                        area.min_y, area.max_y)
             THEN TRUE
             ELSE AnyVertexInside(obj1, area, k + 1)

\* A loop over the vertices that would look at the first vertex only.
FirstVertexAgainst(name1, box) ==
    IF box.raised # ""
    THEN [raised |-> box.raised, scene |-> box.scene, ret |-> FALSE]
    ELSE [raised |-> "", scene |-> box.scene,
          ret |-> AnyVertexInside(
                      [box.scene[name1] EXCEPT !.verts = SubSeq(@, 1, 1)], box.ret, 1)]

\* collision_check_objects from line 388 on, box being what
\* get_world_bounding_box_xy gave.
VerticesAgainst(name1, box) ==
    IF box.raised # ""
    THEN [raised |-> box.raised, scene |-> box.scene, ret |-> FALSE]
    ELSE [raised |-> "", scene |-> box.scene,
          ret |-> AnyVertexInside(box.scene[name1], box.ret, 1)]

\* A test that would also look for a vertex of obj2 in the area of obj1.
collision_either_way(scene, name1, name2) ==
    IF Get(scene, name1).type = "MESH"
    THEN Eval(VerticesAgainst(name1, get_world_bounding_box_xy(scene, name2)),
              LAMBDA c :
                IF c.raised # "" \/ c.ret \/ Get(c.scene, name2).type # "MESH"
                THEN c
                ELSE VerticesAgainst(name2, get_world_bounding_box_xy(c.scene, name1)))
    ELSE [raised |-> "", scene |-> scene, ret |-> FALSE]

\* collision_check_objects(obj1, obj2), the objects given by name: what it
\* returns, the exception it raises, and the scene it leaves.
collision_check_objects(scene, name1, name2) ==
    IF Get(scene, name1).type = "MESH"
    THEN Eval(get_world_bounding_box_xy(scene, name2),
              LAMBDA box : VerticesAgainst(name1, box))
    ELSE [raised |-> "", scene |-> scene, ret |-> FALSE]

(***************************************************************************)
(* Distance audit                                                          *)
(***************************************************************************)
\* float('inf'), a finite length sqrt(sq), and Python's None.
Inf == [kind |-> "inf"]

Float(sq) == [kind |-> "float", sq |-> sq]

NoDistance == [kind |-> "None"]

\* (v1 - v2).length
Length(v1, v2) ==
    Float((v1.x - v2.x) * (v1.x - v2.x) + (v1.y - v2.y) * (v1.y - v2.y)
          + (v1.z - v2.z) * (v1.z - v2.z))

\* a < b for two lengths
LengthLess(a, b) ==
    /\ a.kind = "float"
    /\ b.kind = "inf" \/ (b.kind = "float" /\ a.sq < b.sq)

\* A comparison that would count a length equal to the threshold as below it.
AtOrBelowThreshold(d, t) ==
    /\ d.kind = "float"
    /\ t >= 0
    /\ d.sq <= t * t

\* d < t for a length d and a threshold t of the configuration (a number)
BelowThreshold(d, t) ==
    /\ d.kind = "float"
    /\ t > 0
    /\ d.sq < t * t

\* get_evaluated_vertices_in_world_space(obj) for a mesh, after its
\* view_layer.update(): the evaluated mesh in world coordinates.
get_evaluated_vertices_in_world_space(obj) ==
    [k \in DOMAIN obj.eval_verts |-> MatMul(obj.matrix_world, obj.eval_verts[k])]

\* Loops that would take the vertices of the two objects in pairs, the a-th
\* with the a-th.
RECURSIVE ClosestPaired(_, _, _, _, _)
ClosestPaired(vs1, vs2, a, b, min_distance) ==
    IF a > Len(vs1) \/ a > Len(vs2) THEN min_distance
    ELSE Eval(Length(vs1[a], vs2[a]),
              LAMBDA d :
                Eval(IF LengthLess(d, min_distance) THEN d ELSE min_distance,
                     LAMBDA m : ClosestPaired(vs1, vs2, a + 1, b, m)))

\* The two loops of find_closest_distance_between_objects from the pair (a, b)
\* on, min_distance being the minimum so far.
RECURSIVE ClosestFrom(_, _, _, _, _)
ClosestFrom(vs1, vs2, a, b, min_distance) ==
    IF a > Len(vs1) THEN min_distance
    ELSE IF b > Len(vs2) THEN ClosestFrom(vs1, vs2, a + 1, 1, min_distance)
    ELSE Eval(Length(vs1[a], vs2[b]),
              LAMBDA d :
                Eval(IF LengthLess(d, min_distance) THEN d ELSE min_distance,
                     LAMBDA m : ClosestFrom(vs1, vs2, a, b + 1, m)))

\* find_closest_distance_between_objects from line 483 on, in the scene each
\* get_evaluated_vertices_in_world_space has updated.
ClosestIn(synced, name1, name2) ==
    [scene |-> synced,
     ret |-> Eval(get_evaluated_vertices_in_world_space(synced[name1]),
                  LAMBDA obj1_vertices :
                    Eval(get_evaluated_vertices_in_world_space(synced[name2]),
                         LAMBDA obj2_vertices :
                           ClosestFrom(obj1_vertices, obj2_vertices, 1, 1, Inf)))]

\* A search that would answer an unbounded distance, not None, for objects
\* that are not meshes.
closest_or_unbounded(scene, name1, name2) ==
    IF Get(scene, name1).type # "MESH" \/ Get(scene, name2).type # "MESH"
    THEN [scene |-> scene, ret |-> Inf]
    ELSE Eval(view_layer_update(scene),
              LAMBDA synced : ClosestIn(synced, name1, name2))

\* find_closest_distance_between_objects(obj1, obj2), the objects given by name
find_closest_distance_between_objects(scene, name1, name2) ==
    IF Get(scene, name1).type # "MESH" \/ Get(scene, name2).type # "MESH"
    THEN [scene |-> scene, ret |-> NoDistance]
    ELSE Eval(view_layer_update(scene),
              LAMBDA synced : ClosestIn(synced, name1, name2))

\* The comparison of safety_check: None < number raises TypeError.
SafetyViolation(min_distance, threshold) ==
    IF BelowThreshold(min_distance, threshold) THEN 1 ELSE 0

(***************************************************************************)
(* The CSV log                                                             *)
(***************************************************************************)
\* The log file: whether os.path.exists(csv_file), and its rows.
NoFile == [exists |-> FALSE, rows |-> <<>>]

File(rows) == [exists |-> TRUE, rows |-> rows]

Header == <<"ImageName", "Violation", "Distance">>

Digits == <<"0", "1", "2", "3", "4", "5", "6", "7", "8", "9">>

\* The width of the index in an image name: the 6 of f"image_{i:06d}.jpg".
IndexWidth == 6

\* str(n), n >= 0
RECURSIVE Decimal(_)
Decimal(n) ==
    IF n < 10 THEN <<Digits[n + 1]>>
    ELSE Decimal(n \div 10) \o <<Digits[(n % 10) + 1]>>

RECURSIVE ZeroPad(_, _)
ZeroPad(s, width) ==
    IF Len(s) >= width THEN s
    ELSE Eval(<<"0">> \o s, LAMBDA padded : ZeroPad(padded, width))

\* f"image_{i:06d}.jpg", a string being the sequence of its characters
ImageName(n) ==
    Eval(Decimal(n),
         LAMBDA digits :
           <<"i", "m", "a", "g", "e", "_">> \o ZeroPad(digits, IndexWidth)
               \o <<".", "j", "p", "g">>)

\* s.split(sep): the pieces of s between the separators
RECURSIVE Split(_, _)
Split(s, sep) ==
    IF \A k \in DOMAIN s : s[k] # sep THEN <<s>>
    ELSE Eval(CHOOSE j \in DOMAIN s : s[j] = sep /\ \A h \in 1..(j - 1) : s[h] # sep,
              LAMBDA k :
                Eval(SubSeq(s, k + 1, Len(s)),
                     LAMBDA rest : <<SubSeq(s, 1, k - 1)>> \o Split(rest, sep)))

DigitValue(c) == (CHOOSE d \in DOMAIN Digits : Digits[d] = c) - 1

\* int(s) for a string of decimal digits
RECURSIVE ParseInt(_)
ParseInt(s) ==
    IF Len(s) = 0 THEN 0
    ELSE Eval(SubSeq(s, 1, Len(s) - 1),
              LAMBDA front : 10 * ParseInt(front) + DigitValue(s[Len(s)]))

\* int(last_row[0].split('_')[1].split('.')[0])
LastImageNum(last_row) ==
    Eval(last_row[1],
         LAMBDA name :
           Eval(Split(name, "_")[2],
                LAMBDA tail :
                  Eval(Split(tail, ".")[1], LAMBDA digits : ParseInt(digits))))

\* An index that would follow the caller's i whatever the file holds.
IndexFromCounter(file, n) == n

\* The index log_to_csv settles on, n being the caller's i.
LogIndex(file, n) ==
    IF file.exists /\ Len(file.rows) > 1
    THEN LastImageNum(file.rows[Len(file.rows)]) + 1
    ELSE n

\* log_to_csv(violation, distance, i, config): the file it leaves.  The header
\* is written when the file is empty (file.tell() == 0 in append mode).
log_to_csv(file, viol, dist, n) ==
    Eval(LogIndex(file, n),
         LAMBDA index :
           File(file.rows
                \o (IF Len(file.rows) = 0 THEN <<Header>> ELSE <<>>)
                \o << <<ImageName(index), viol, dist>> >>))

\* The number of images of the runs that wrote the log found in the output
\* directory.
PriorImages == 42

\* The log earlier runs have left: the header and their rows, image_000000 to
\* image_000041.
PriorLog ==
    Eval([k \in 1..(PriorImages + 1) |->
            IF k = 1 THEN Header ELSE <<ImageName(k - 2), 0, Float(4)>>],
         LAMBDA rows : File(rows))

(***************************************************************************)
(* The configuration and the scene file                                    *)
(***************************************************************************)
\* np.random.uniform(*range): the lattice values between the two ends.  NumPy
\* does not reject low > high: it draws between high and low.
Uniform(range) ==
    IF range[1] <= range[2] THEN range[1]..range[2] ELSE range[2]..range[1]

\* math.radians(np.random.uniform(0, 360)): the quarter turns.
Rotations == 0..3

\* config.json with every key, the nested keys written with dots.
BaseConfig ==
    [ k \in {"NumberImages", "SceneSelection", "CameraDistance",
             "MotionRange.x", "MotionRange.y", "MotionRange.z",
             "SizeRange.x", "SizeRange.y", "PositionRange.x", "PositionRange.y",
             "ArmRangeRight", "ArmRangeLeft",
             "Human.PositionRange.x", "Human.PositionRange.y",
             "SafetyZone.Distance", "CategoryIDs", "OutputDir"} |->
        CASE k = "NumberImages" -> 2
          [] k = "SceneSelection" -> "scene.blend"
          [] k = "CameraDistance" -> <<5, 5>>
          [] k = "MotionRange.x" -> <<0, 0>>
          [] k = "MotionRange.y" -> <<0, 0>>
          [] k = "MotionRange.z" -> <<1, 1>>
          [] k = "SizeRange.x" -> <<1, 1>>
          [] k = "SizeRange.y" -> <<1, 1>>
          [] k = "PositionRange.x" -> <<0, 2>>
          [] k = "PositionRange.y" -> <<0, 0>>
          [] k = "ArmRangeRight" -> <<0, 0>>
          [] k = "ArmRangeLeft" -> <<0, 0>>
          [] k = "Human.PositionRange.x" -> <<0, 0>>
          [] k = "Human.PositionRange.y" -> <<-3, -3>>
          [] k = "SafetyZone.Distance" -> 2
          [] k = "CategoryIDs" -> "ids"
          [] OTHER -> "output" ]

\* config with key k set to v
With(cfg, k, v) == [cfg EXCEPT ![k] = v]

\* config without key k
Without(cfg, k) == [j \in DOMAIN cfg \ {k} |-> cfg[j]]

\* config for a single image
Single(cfg) == With(cfg, "NumberImages", 1)

\* The configurations the runs are given.
Configs ==
    { BaseConfig,
      \* the arm swings, with a larger safety zone
      With(With(Single(BaseConfig), "ArmRangeRight", <<0, 1>>),
           "SafetyZone.Distance", 3),
      \* the tool point and the worker move
      With(With(With(Single(BaseConfig), "MotionRange.x", <<0, 1>>),
                "MotionRange.z", <<1, 2>>), "Human.PositionRange.y", <<-3, -2>>),
      \* the workpiece can be placed only where it touches the vest
      With(Single(BaseConfig), "PositionRange.x", <<2, 2>>),
      \* the workpiece varies in size
      With(With(Single(BaseConfig), "SizeRange.x", <<1, 2>>),
           "PositionRange.x", <<1, 1>>),
      \* ranges given with min > max
      With(Single(BaseConfig), "PositionRange.x", <<1, 0>>),
      With(Single(BaseConfig), "MotionRange.z", <<1, 0>>),
      \* keys left out
      Without(BaseConfig, "SafetyZone.Distance"),
      Without(BaseConfig, "PositionRange.x"),
      Without(BaseConfig, "NumberImages") }

\* The vertices of the workpiece after subdivide_object: a flat square and the
\* vertices the subdivision put on its edges and in its middle.
WorkpieceVerts ==
    << Vector(-1, -1, 0), Vector(0, -1, 0), Vector(1, -1, 0),
       Vector(-1, 0, 0),  Vector(0, 0, 0),  Vector(1, 0, 0),
       Vector(-1, 1, 0),  Vector(0, 1, 0),  Vector(1, 1, 0) >>

BoxVerts ==
    << Vector(0, -1, 0), Vector(1, -1, 0), Vector(0, 1, 0), Vector(1, 1, 2) >>

\* scene.blend with every object the program names.
BaseScene ==
    [ n \in {"Table", "workpiece", "Worker", "TCP", "Environment", "Gripper",
             "Ch17_Vest", "Link-0", "Hand", "Gloves"} |->
        CASE n = "Table" ->
               Object("MESH", <<Vector(-4, -4, 0), Vector(4, 4, 0)>>,
                      Vector(0, 0, 0), "")
          [] n = "workpiece" -> Object("MESH", WorkpieceVerts, Vector(0, 0, 0), "")
          [] n = "Worker" -> Object("ARMATURE", <<Vector(0, 0, 0)>>, Vector(0, -3, 0), "")
          [] n = "TCP" -> Object("EMPTY", <<Vector(0, 0, 0)>>, Vector(0, 0, 1), "")
          [] n = "Ch17_Vest" -> Object("MESH", BoxVerts, Vector(3, 0, 1), "Worker")
          [] n = "Link-0" -> Object("MESH", BoxVerts, Vector(-4, 0, 0), "")
          [] n = "Hand" -> Object("MESH", <<Vector(0, 0, 0)>>, Vector(0, 0, 1), "")
          [] n = "Gloves" ->
               Object("MESH", <<Vector(2, 0, 0), Vector(3, 1, 0)>>,
                      Vector(0, 0, 1), "Worker")
          [] OTHER -> Object("EMPTY", <<Vector(0, 0, 0)>>, Vector(0, 0, 0), "") ]

\* scene without object n
Missing(scn, n) == [m \in DOMAIN scn \ {n} |-> scn[m]]

\* scene with object n at another place
MovedTo(scn, n, loc) ==
    [scn EXCEPT ![n].location = loc, ![n].matrix_world.loc = loc]

\* scene with object n of another type
Retyped(scn, n, type) == [scn EXCEPT ![n].type = type]

\* The scene files the runs are given, by file name.
Scenes ==
    [ f \in {"scene.blend", "no_hand.blend", "gloves_empty.blend", "no_vest.blend",
             "near_base.blend"} |->
        CASE f = "scene.blend" -> BaseScene
          [] f = "no_hand.blend" -> Missing(BaseScene, "Hand")
          [] f = "gloves_empty.blend" -> Retyped(BaseScene, "Gloves", "EMPTY")
          [] f = "no_vest.blend" -> Missing(BaseScene, "Ch17_Vest")
          \* the robot's base stands next to where the workpiece is put
          [] OTHER -> MovedTo(BaseScene, "Link-0", Vector(-2, 0, 0)) ]

(***************************************************************************)
(* The randomisation steps                                                 *)
(***************************************************************************)
\* A randomize_position that would write the two draws to the other axes.
position_axes_swapped(obj, x, y) ==
    [obj EXCEPT !.location = Vector(y, x, obj.location.z)]

\* randomize_position(obj, range_x, range_y): x and y are the values drawn.
randomize_position(obj, x, y) ==
    [obj EXCEPT !.location = Vector(x, y, obj.location.z)]

\* randomize_position(obj, range_x, range_y, range_z)
randomize_position_z(obj, x, y, z) ==
    [obj EXCEPT !.location = Vector(x, y, z)]

\* randomize_workpiece(workpiece, config): sx, sy, rot, x, y are the values drawn.
randomize_workpiece(obj, sx, sy, rot, x, y) ==
    randomize_position(
        [obj EXCEPT !.scale = Vector(sx, sy, 1), !.rotation = rot], x, y)

\* The keys randomize_workpiece reads.
WorkpieceKeys == {"SizeRange.x", "SizeRange.y", "PositionRange.x", "PositionRange.y"}

\* The placements a configuration lets randomize_workpiece draw.
Placements(cfg) ==
    IF WorkpieceKeys \subseteq DOMAIN cfg
    THEN { [sx |-> sx, sy |-> sy, rot |-> rot, x |-> x, y |-> y] :
             sx \in Uniform(cfg["SizeRange.x"]), sy \in Uniform(cfg["SizeRange.y"]),
             rot \in Rotations,
             x \in Uniform(cfg["PositionRange.x"]), y \in Uniform(cfg["PositionRange.y"]) }
    ELSE {}

\* randomize_worker(worker, config): the arm swings and the position drawn.
randomize_worker(obj, right_rotation, left_rotation, x, y) ==
    randomize_position([obj EXCEPT !.pose = Pose(right_rotation, left_rotation)], x, y)

\* Checks that would never clear the first flag once the scene is checked.
FirstCheckNeverClears(c1, c2) ==
    IF c1.raised # ""
    THEN [raised |-> c1.raised, scene |-> c1.scene,
          check1 |-> FALSE, check2 |-> FALSE]
    ELSE [raised |-> c2.raised, scene |-> c2.scene,
          check1 |-> TRUE, check2 |-> c2.ret]

\* What the two checks of collision_check_scene give, c1 the first and c2
\* the second.
ChecksOf(c1, c2) ==
    IF c1.raised # ""
    THEN [raised |-> c1.raised, scene |-> c1.scene,
          check1 |-> FALSE, check2 |-> FALSE]
    ELSE [raised |-> c2.raised, scene |-> c2.scene,
          check1 |-> c1.ret, check2 |-> c2.ret]

\* The two checks of collision_check_scene, one after the other.
BothChecks(scene) ==
    Eval(collision_check_objects(scene, "workpiece", "Ch17_Vest"),
         LAMBDA c1 :
           Eval(collision_check_objects(c1.scene, "workpiece", "Link-0"),
                LAMBDA c2 : ChecksOf(c1, c2)))

\* A loop that would draw again whatever the checks report.
WhileAlways(c1, c2) == TRUE

\* A loop that would go on only while both checks report a collision.
WhileBothCollide(c1, c2) == c1 /\ c2

\* The condition of the while loop of collision_check_scene.
WhileCondition(c1, c2) == c1 \/ c2

\* The transforms of an evaluated scene the renderer draws.
SnapshotOf(synced) ==
    [workpiece |-> synced["workpiece"].matrix_world,
     tcp |-> synced["TCP"].matrix_world.loc,
     worker |-> synced["Worker"].matrix_world.loc]

\* What the renderer is handed: the transforms as the dependency graph
\* evaluates them at render time.
Snapshot(scene) == SnapshotOf(view_layer_update(scene))

(***************************************************************************)
(* main                                                                    *)
(***************************************************************************)
NoObjects == [n \in {} |-> None]

NoCamera == Vector(0, 0, 0)

\* The variables of a process before it has done anything; the log on disk
\* is what it is.
Cleared ==
    /\ err = ""
    /\ i = 0
    /\ num_images = 0
    /\ objects = NoObjects
    /\ camera = NoCamera
    /\ light = NoCamera
    /\ check1 = FALSE
    /\ check2 = FALSE
    /\ violation = 0
    /\ distance = NoDistance
    /\ rendered = <<>>
    /\ images = 0
    /\ appended = 0
    /\ rounds = 0

Fresh ==
    /\ pc = "load_config"
    /\ Cleared

Init ==
    /\ config \in Configs
    /\ scene_file \in DOMAIN Scenes
    /\ csv \in {NoFile, PriorLog}
    /\ runs = 1
    /\ call = <<>>
    /\ ret = <<>>
    /\ Fresh

\* An uncaught exception ends the run.
Raise(e) ==
    /\ pc' = "crashed"
    /\ err' = e

\* main, lines 658-667: the configuration is loaded, NumberImages is read.
load_config ==
    /\ pc = "load_config"
    /\ IF "NumberImages" \in DOMAIN config
       THEN /\ num_images' = config["NumberImages"]
            /\ i' = 0
            /\ pc' = "for"
            /\ err' = err
       ELSE /\ Raise("KeyError")
            /\ UNCHANGED <<num_images, i>>
    /\ UNCHANGED <<config, scene_file, csv, objects, camera, light, check1, check2,
                   violation, distance, rendered, images, appended, rounds, runs,
                   call, ret>>

\* for i in range(num_images)
for_loop ==
    /\ pc = "for"
    /\ pc' = IF i < num_images THEN "load_scene" ELSE "done"
    /\ UNCHANGED <<config, scene_file, csv, err, i, num_images, objects, camera,
                   light, check1, check2, violation, distance, rendered, images,
                   appended, rounds, runs, call, ret>>

\* The names assign_objects looks up that load_scene_from_blend enters only
\* for an object of the file ("Panda" it enters for every file).
AssignedNames == {"Table", "workpiece", "Worker", "TCP", "Environment", "Gripper"}

\* reset_keyframes, load_scene_from_blend, assign_objects: the objects of the
\* scene file are appended to the scene as the file holds them.
load_scene ==
    /\ pc = "load_scene"
    /\ IF "SceneSelection" \in DOMAIN config /\ AssignedNames \subseteq DOMAIN Scenes[scene_file]
       THEN /\ objects' = Scenes[scene_file]
            /\ pc' = "randomize_camera_and_light"
            /\ err' = err
       ELSE /\ Raise("KeyError")
            /\ UNCHANGED objects
    /\ UNCHANGED <<config, scene_file, csv, i, num_images, camera, light, check1,
                   check2, violation, distance, rendered, images, appended, rounds,
                   runs, call, ret>>

\* randomize_camera_and_light(table, config): the camera is put at a drawn
\* distance from the table centre, the light beside the camera.
randomize_camera_and_light ==
    /\ pc = "randomize_camera_and_light"
    /\ IF "CameraDistance" \in DOMAIN config
       THEN \E r \in Uniform(config["CameraDistance"]) :
              LET table == objects["Table"]
                  camera_location ==
                      Vector(table.location.x, table.location.y - r, r)
              IN  /\ camera' = camera_location
                  /\ light' = Vector(camera_location.x + 1, camera_location.y - 1,
                                     camera_location.z + 2)
                  /\ pc' = "randomize_panda"
                  /\ err' = err
       ELSE /\ Raise("KeyError")
            /\ UNCHANGED <<camera, light>>
    /\ UNCHANGED <<config, scene_file, csv, i, num_images, objects, check1, check2,
                   violation, distance, rendered, images, appended, rounds, runs,
                   call, ret>>

\* randomize_panda(tcp, config)
randomize_panda ==
    /\ pc = "randomize_panda"
    /\ IF {"MotionRange.x", "MotionRange.y", "MotionRange.z"} \subseteq DOMAIN config
       THEN \E x \in Uniform(config["MotionRange.x"]),
               y \in Uniform(config["MotionRange.y"]),
               z \in Uniform(config["MotionRange.z"]) :
              /\ objects' = [objects EXCEPT
                               !["TCP"] = randomize_position_z(@, x, y, z)]
              /\ pc' = "randomize_workpiece"
              /\ err' = err
       ELSE /\ Raise("KeyError")
            /\ UNCHANGED objects
    /\ UNCHANGED <<config, scene_file, csv, i, num_images, camera, light, check1,
                   check2, violation, distance, rendered, images, appended, rounds,
                   runs, call, ret>>

\* workpiece = randomize_workpiece(workpiece, config), main's call
main_randomize_workpiece ==
    /\ pc = "randomize_workpiece"
    /\ IF WorkpieceKeys \subseteq DOMAIN config
       THEN \E t \in Placements(config) :
              /\ objects' = [objects EXCEPT
                               !["workpiece"] =
                                   randomize_workpiece(@, t.sx, t.sy, t.rot, t.x, t.y)]
              /\ pc' = "randomize_worker"
              /\ err' = err
       ELSE /\ Raise("KeyError")
            /\ UNCHANGED objects
    /\ UNCHANGED <<config, scene_file, csv, i, num_images, camera, light, check1,
                   check2, violation, distance, rendered, images, appended, rounds,
                   runs, call, ret>>

\* randomize_worker(worker[0], config)
main_randomize_worker ==
    /\ pc = "randomize_worker"
    /\ IF {"ArmRangeRight", "ArmRangeLeft", "Human.PositionRange.x",
           "Human.PositionRange.y"} \subseteq DOMAIN config
       THEN \E r \in Uniform(config["ArmRangeRight"]),
               l \in Uniform(config["ArmRangeLeft"]),
               x \in Uniform(config["Human.PositionRange.x"]),
               y \in Uniform(config["Human.PositionRange.y"]) :
              /\ objects' = [objects EXCEPT
                               !["Worker"] = randomize_worker(@, r, l, x, y)]
              /\ pc' = "update"
              /\ err' = err
       ELSE /\ Raise("KeyError")
            /\ UNCHANGED objects
    /\ UNCHANGED <<config, scene_file, csv, i, num_images, camera, light, check1,
                   check2, violation, distance, rendered, images, appended, rounds,
                   runs, call, ret>>

\* bpy.context.view_layer.update(), main line 688
main_update ==
    /\ pc = "update"
    /\ objects' = view_layer_update(objects)
    /\ pc' = "collision_check_scene"
    /\ UNCHANGED <<config, scene_file, csv, err, i, num_images, camera, light,
                   check1, check2, violation, distance, rendered, images, appended,
                   rounds, runs, call, ret>>

\* The checks c are taken over by collision_check_scene, after n resamples.
Checked(c, n) ==
    /\ objects' = c.scene
    /\ rounds' = n
    /\ IF c.raised # ""
       THEN /\ Raise(c.raised)
            /\ UNCHANGED <<check1, check2>>
       ELSE /\ check1' = c.check1
            /\ check2' = c.check2
            /\ pc' = "while"
            /\ err' = err
    /\ UNCHANGED <<config, scene_file, csv, i, num_images, camera, light, violation,
                   distance, rendered, images, appended, runs, call, ret>>

\* collision_check_scene, lines 413-418: the two initial checks.
collision_check_scene ==
    /\ pc = "collision_check_scene"
    /\ \E c \in {BothChecks(objects)} : Checked(c, 0)

\* One turn of the while loop of collision_check_scene, lines 421-427: the
\* workpiece is drawn again (placement t) and both checks are made again.
resample(t) ==
    /\ pc = "while"
    /\ WhileCondition(check1, check2)
    /\ t \in Placements(config)
    /\ \E drawn \in {[objects EXCEPT
                        !["workpiece"] =
                            randomize_workpiece(@, t.sx, t.sy, t.rot, t.x, t.y)]} :
         \E c \in {BothChecks(drawn)} :
           Checked(c, IF rounds < MaxRounds THEN rounds + 1 ELSE rounds)

\* Every placement a model configuration can draw.
AllPlacements == UNION { Placements(cfg) : cfg \in Configs }

collision_check_scene_loop == \E t \in AllPlacements : resample(t)

\* The while loop ends: collision_check_scene returns.
collision_check_scene_return ==
    /\ pc = "while"
    /\ ~ WhileCondition(check1, check2)
    /\ pc' = "safety_check"
    /\ check1' = FALSE
    /\ check2' = FALSE
    /\ UNCHANGED <<config, scene_file, csv, err, i, num_images, objects, camera,
                   light, violation, distance, rendered, images, appended, rounds,
                   runs, call, ret>>

\* safety_check(config), d being what find_closest_distance_between_objects
\* gave: None < number raises TypeError.
Audited(d) ==
    /\ objects' = d.scene
    /\ IF d.ret.kind = "None"
       THEN /\ Raise("TypeError")
            /\ UNCHANGED <<violation, distance>>
       ELSE IF "SafetyZone.Distance" \notin DOMAIN config
       THEN /\ Raise("KeyError")
            /\ UNCHANGED <<violation, distance>>
       ELSE /\ violation' = SafetyViolation(d.ret, config["SafetyZone.Distance"])
            /\ distance' = d.ret
            /\ pc' = "render_scene"
            /\ err' = err
    /\ UNCHANGED <<config, scene_file, csv, i, num_images, camera, light, check1,
                   check2, rendered, images, appended, rounds, runs, call, ret>>

\* violation, distance = safety_check(config)
safety_check ==
    /\ pc = "safety_check"
    /\ \E d \in {find_closest_distance_between_objects(objects, "Hand", "Gloves")} :
           Audited(d)

\* render_scene(config)
render_scene ==
    /\ pc = "render_scene"
    /\ IF {"CategoryIDs", "OutputDir"} \subseteq DOMAIN config
       THEN /\ objects' = view_layer_update(objects)
            /\ rendered' = <<Snapshot(objects)>>
            /\ images' = images + 1
            /\ pc' = "log_to_csv"
            /\ err' = err
       ELSE /\ Raise("KeyError")
            /\ UNCHANGED <<objects, rendered, images>>
    /\ UNCHANGED <<config, scene_file, csv, i, num_images, camera, light, check1,
                   check2, violation, distance, appended, rounds, runs, call, ret>>

\* A main that would call log_to_csv twice in an iteration.
log_written_twice ==
    /\ pc = "log_to_csv"
    /\ csv' = log_to_csv(log_to_csv(csv, violation, distance, i), violation, distance, i)
    /\ appended' = appended + 2
    /\ pc' = "cleanup_scene"
    /\ UNCHANGED <<config, scene_file, err, i, num_images, objects, camera, light,
                   check1, check2, violation, distance, rendered, images, rounds,
                   runs, call, ret>>

\* log_to_csv(violation, distance, i, config)
main_log_to_csv ==
    /\ pc = "log_to_csv"
    /\ csv' = log_to_csv(csv, violation, distance, i)
    /\ appended' = appended + 1
    /\ pc' = "cleanup_scene"
    /\ UNCHANGED <<config, scene_file, err, i, num_images, objects, camera, light,
                   check1, check2, violation, distance, rendered, images, rounds,
                   runs, call, ret>>

\* cleanup_scene(), and the loop's next i: every object but cameras and lights
\* is deleted.
cleanup_scene ==
    /\ pc = "cleanup_scene"
    /\ objects' = NoObjects
    /\ rendered' = <<>>
    /\ rounds' = 0
    /\ i' = i + 1
    /\ pc' = "for"
    /\ UNCHANGED <<config, scene_file, csv, err, num_images, camera, light, check1,
                   check2, violation, distance, images, appended, runs, call, ret>>

\* The program is run again on the same configuration and output directory.
run_again ==
    /\ pc \in {"done", "crashed"}
    /\ runs < MaxRuns
    /\ runs' = runs + 1
    /\ pc' = "load_config"
    /\ err' = ""
    /\ i' = 0
    /\ num_images' = 0
    /\ objects' = NoObjects
    /\ camera' = NoCamera
    /\ light' = NoCamera
    /\ check1' = FALSE
    /\ check2' = FALSE
    /\ violation' = 0
    /\ distance' = NoDistance
    /\ rendered' = <<>>
    /\ images' = 0
    /\ appended' = 0
    /\ rounds' = 0
    /\ UNCHANGED <<config, scene_file, csv, call, ret>>

\* The steps of one run of the program.
Program ==
    \/ load_config
    \/ for_loop
    \/ load_scene
    \/ randomize_camera_and_light
    \/ randomize_panda
    \/ main_randomize_workpiece
    \/ main_randomize_worker
    \/ main_update
    \/ collision_check_scene
    \/ collision_check_scene_loop
    \/ collision_check_scene_return
    \/ safety_check
    \/ render_scene
    \/ main_log_to_csv
    \/ cleanup_scene

Next == Program \/ run_again

Spec == Init /\ [][Next]_vars

(***************************************************************************)
(* The placement loop: claims C1, C2, C3                                   *)
(***************************************************************************)
Obstacles == {"Ch17_Vest", "Link-0"}

\* The states from the return of collision_check_scene to the end of the
\* iteration.
AfterResolver == {"safety_check", "render_scene", "log_to_csv", "cleanup_scene"}

\* The workpiece of the loaded scene put at placement t.
PlacedAt(scene, t) ==
    [scene EXCEPT
       !["workpiece"] = randomize_workpiece(@, t.sx, t.sy, t.rot, t.x, t.y)]

\* The workpiece at placement t touches no obstacle of the scene file.
Free(t) ==
    Eval(PlacedAt(Scenes[scene_file], t),
         LAMBDA placed :
           \A o \in Obstacles : ~ collision_check_objects(placed, "workpiece", o).ret)

ObstaclesPresent == Obstacles \subseteq DOMAIN Scenes[scene_file]

\* The loop draws a placement that is free in the scene of the run.
draw_free ==
    /\ pc = "while"
    /\ \E t \in Placements(config) : Free(t) /\ resample(t)

\* The configurations under which the loop is followed to its end: the
\* workpiece range holds free and touching placements, or only touching ones,
\* or the workpiece varies in size.
PlacementConfigs ==
    { BaseConfig,
      With(Single(BaseConfig), "PositionRange.x", <<2, 2>>),
      With(With(Single(BaseConfig), "SizeRange.x", <<1, 2>>),
           "PositionRange.x", <<1, 1>>) }

\* The interpreter runs the program on while it has a next statement, and the
\* random generator is fair: if the loop draws again and again while a free
\* placement can be drawn, a free placement is drawn.
FairInit ==
    /\ Init
    /\ csv = NoFile
    /\ config \in PlacementConfigs
    /\ scene_file \in {"scene.blend", "near_base.blend"}

FairSpec ==
    /\ FairInit
    /\ [][Next]_vars
    /\ WF_vars(Program)
    /\ SF_vars(draw_free)

\* C1: whenever collision_check_scene has returned, collision_check_objects of
\* the workpiece against the vest and against Link-0 is false on the transform
\* left in place, and the transform the renderer is handed is that transform,
\* however many times the workpiece was drawn again.
C1_ResolvedPlacementCollidesWithNothing ==
    /\ pc \in AfterResolver =>
         \A o \in Obstacles : ~ collision_check_objects(objects, "workpiece", o).ret
    /\ rendered # <<>> =>
         /\ rendered[1].workpiece =
                Transform(objects["workpiece"].location, objects["workpiece"].rotation,
                          objects["workpiece"].scale)
         /\ \A o \in Obstacles :
              ~ collision_check_objects(
                    [objects EXCEPT !["workpiece"].matrix_world = rendered[1].workpiece,
                                    !["workpiece"].location = rendered[1].workpiece.loc,
                                    !["workpiece"].rotation = rendered[1].workpiece.rot,
                                    !["workpiece"].scale = rendered[1].workpiece.scale],
                    "workpiece", o).ret

\* C1's case: the image is rendered after the workpiece was drawn again twice.
C1_Witness == rendered # <<>> /\ rounds >= 2

\* Every placement the configuration allows collides in the scene of the run.
EveryPlacementCollides ==
    /\ ObstaclesPresent
    /\ Placements(config) # {}
    /\ \A t \in Placements(config) : ~ Free(t)

\* C2: when every placement of the workpiece range collides,
\* collision_check_scene ends by raising RetryExhausted.
C2_ExhaustedRetriesAreSurfaced ==
    (pc = "while" /\ EveryPlacementCollides)
        ~> (pc = "crashed" /\ err = "RetryExhausted")

\* Some placement the configuration allows is free in the scene of the run.
FreePlacementExists ==
    /\ ObstaclesPresent
    /\ \E t \in Placements(config) : Free(t)

\* C3: when the workpiece range holds a collision-free placement and sampling
\* is fair, collision_check_scene, once searching, returns, with a workpiece
\* that collides with no obstacle.
C3_ResolverConverges ==
    (pc = "while" /\ FreePlacementExists)
        ~> (pc = "safety_check"
            /\ \A o \in Obstacles :
                 ~ collision_check_objects(objects, "workpiece", o).ret)

\* C3's case: the loop has drawn the workpiece again and has then returned.
C3_Witness == pc = "safety_check" /\ rounds >= 1 /\ FreePlacementExists

(***************************************************************************)
(* The distance audit: claims C4, C8                                       *)
(***************************************************************************)
\* C4: when safety_check has returned, the distance it returned is the
\* minimum distance of the Hand/Gloves pair, and violation is 1 exactly when
\* that distance is strictly below SafetyZone.Distance, 0 otherwise: a
\* distance equal to the threshold gives 0.
C4_ViolationIffStrictlyBelow ==
    pc = "render_scene" =>
        /\ distance =
               find_closest_distance_between_objects(objects, "Hand", "Gloves").ret
        /\ distance.kind # "None"
        /\ violation \in {0, 1}
        /\ violation = 1 <=>
               /\ distance.kind = "float"
               /\ config["SafetyZone.Distance"] > 0
               /\ distance.sq
                      < config["SafetyZone.Distance"] * config["SafetyZone.Distance"]

\* C4's case: the distance equals the threshold, and no violation is reported.
C4_Witness ==
    /\ pc = "render_scene"
    /\ distance.kind = "float"
    /\ distance.sq = config["SafetyZone.Distance"] * config["SafetyZone.Distance"]
    /\ violation = 0

\* The scene file has no mesh called n.
Unusable(n) == Get(Scenes[scene_file], n).type # "MESH"

\* C8: when the scene has no Hand mesh or no Gloves mesh, no distance and no
\* violation flag are produced, no image is rendered and the log is left as it
\* was found: the run does not get past safety_check.
C8_UnusableHandOrGlovesStopsTheIteration ==
    (Unusable("Hand") \/ Unusable("Gloves")) =>
        /\ pc \notin {"render_scene", "log_to_csv", "cleanup_scene", "done"}
        /\ distance = NoDistance
        /\ violation = 0
        /\ rendered = <<>>
        /\ images = 0
        /\ appended = 0
        /\ csv \in {NoFile, PriorLog}

\* C8's case: safety_check has raised on the missing distance.
C8_Witness ==
    /\ Unusable("Hand") \/ Unusable("Gloves")
    /\ pc = "crashed"
    /\ err = "TypeError"

(***************************************************************************)
(* The log: claim C5                                                       *)
(***************************************************************************)
\* The index a data row's image name holds: the digits between "image_" and
\* ".jpg".
RowIndex(row) == ParseInt(SubSeq(row[1], 7, 6 + IndexWidth))

\* C5: the log starts with the header, and each data row's index is the
\* index of the row before it plus 1, whatever runs and iterations wrote the
\* rows.
C5_LogIndicesAreConsecutive ==
    csv.exists =>
        /\ csv.rows[1] = Header
        /\ \A k \in 2..Len(csv.rows) : csv.rows[k][1] = ImageName(RowIndex(csv.rows[k]))
        /\ \A k \in 2..(Len(csv.rows) - 1) :
               RowIndex(csv.rows[k + 1]) = RowIndex(csv.rows[k]) + 1

\* C5's case: the first iteration (i = 0) of a run that found a log ending
\* with image_000041 has appended image_000042.
C5_Witness ==
    /\ pc = "cleanup_scene"
    /\ i = 0
    /\ appended = 1
    /\ Len(csv.rows) = PriorImages + 2
    /\ csv.rows[Len(csv.rows) - 1][1] = ImageName(PriorImages - 1)
    /\ csv.rows[Len(csv.rows)][1] = ImageName(PriorImages)

(***************************************************************************)
(* The configuration: claims C9, C10                                       *)
(***************************************************************************)
\* The keys main and the functions it calls read.
RequiredKeys == DOMAIN BaseConfig

\* The keys that hold a [min, max] pair.
RangeKeys ==
    {"CameraDistance", "MotionRange.x", "MotionRange.y", "MotionRange.z",
     "SizeRange.x", "SizeRange.y", "PositionRange.x", "PositionRange.y",
     "ArmRangeRight", "ArmRangeLeft", "Human.PositionRange.x",
     "Human.PositionRange.y"}

\* Some range of the configuration has min > max.
Malformed(cfg) == \E k \in RangeKeys \cap DOMAIN cfg : cfg[k][1] > cfg[k][2]

WellFormed(cfg) == RequiredKeys \subseteq DOMAIN cfg /\ ~ Malformed(cfg)

\* C9: under a configuration with a required key missing or a range with
\* min > max, no image is rendered and no row is appended to the log.
C9_InvalidConfigurationStopsTheRun ==
    ~ WellFormed(config) => images = 0 /\ appended = 0

\* range.min <= v <= range.max
InRange(v, range) == range[1] <= v /\ v <= range[2]

\* C10: under a configuration whose ranges have min <= max, the transforms
\* the renderer is handed hold the tool point, the workpiece and the worker
\* within their configured ranges, the workpiece with scale z = 1, however
\* many times the workpiece was drawn again.
C10_RenderedPositionsAreWithinRanges ==
    (rendered # <<>> /\ WellFormed(config)) =>
        /\ InRange(rendered[1].tcp.x, config["MotionRange.x"])
        /\ InRange(rendered[1].tcp.y, config["MotionRange.y"])
        /\ InRange(rendered[1].tcp.z, config["MotionRange.z"])
        /\ InRange(rendered[1].workpiece.loc.x, config["PositionRange.x"])
        /\ InRange(rendered[1].workpiece.loc.y, config["PositionRange.y"])
        /\ InRange(rendered[1].worker.x, config["Human.PositionRange.x"])
        /\ InRange(rendered[1].worker.y, config["Human.PositionRange.y"])
        /\ rendered[1].workpiece.scale.z = 1

\* C10's case: an image is rendered after the workpiece was drawn again.
C10_Witness ==
    /\ rendered # <<>>
    /\ WellFormed(config)
    /\ rounds >= 1
    /\ rendered[1].workpiece.loc.x = config["PositionRange.x"][1]

(***************************************************************************)
(* The collision test on its own: claims C6, C7                            *)
(***************************************************************************)
\* The coordinates the inputs are drawn from: -MaxCoord..MaxCoord.
MaxCoord == 1

Coordinates == (0 - MaxCoord)..MaxCoord

\* An area as get_world_bounding_box_xy returns it, or as a caller makes it up.
Area(min_x, max_x, min_y, max_y) ==
    [min_x |-> min_x, max_x |-> max_x, min_y |-> min_y, max_y |-> max_y]

\* A mesh of two vertices, two units apart.
ProbeVerts == << Vector(0, 0, 0), Vector(2, 0, 0) >>

\* An object whose properties were written after the dependency graph was
\* last evaluated: location and rotation are new, matrix_world is old.
Written(obj, location, rotation) ==
    [obj EXCEPT !.location = location, !.rotation = rotation]

\* A scene of a probe called workpiece (of some type, or absent) and an
\* obstacle called Ch17_Vest, a box from z = 0 to z = 2.
ProbeScenes ==
    { [n \in (IF type = "absent" THEN {} ELSE {"workpiece"}) \cup {"Ch17_Vest"} |->
         IF n = "workpiece"
         THEN Written(Object(type, ProbeVerts,
                             IF moved THEN Vector(0, 0, 0) ELSE Vector(x, y, z), ""),
                      Vector(x, y, z), rot)
         ELSE Written(Object("MESH", BoxVerts, Vector(0, 0, 0), ""),
                      Vector(0, 0, 0), orot)] :
        type \in {"MESH", "EMPTY", "absent"},
        moved \in BOOLEAN,
        rot \in Rotations, orot \in {0, 1},
        x \in Coordinates, y \in Coordinates, z \in {0, 5} }

\* The meshes the distance is taken between: no vertex, one, two.
HandMeshes == { <<>>, <<Vector(0, 0, 0)>>, <<Vector(0, 0, 0), Vector(1, 0, 0)>> }

GlovesMeshes == { <<>>, <<Vector(0, 0, 0)>>, <<Vector(0, 0, 0), Vector(0, 1, 1)>> }

\* A scene of a Hand at the origin and of Gloves the Worker's armature
\* deforms, the Gloves moved, turned and posed since the dependency graph was
\* last evaluated.
DistanceScenes ==
    { [n \in {"Hand", "Gloves", "Worker"} |->
         CASE n = "Hand" -> Object("MESH", hand, Vector(0, 0, 0), "")
           [] n = "Gloves" ->
                Written(Object("MESH", gloves, Vector(0, 0, 0), "Worker"),
                        Vector(3 * x, 4 * y, z), rot)
           [] OTHER ->
                [Object("ARMATURE", <<Vector(0, 0, 0)>>, Vector(0, 0, 0), "")
                   EXCEPT !.pose = Pose(right, 0)]] :
        hand \in HandMeshes, gloves \in GlovesMeshes,
        x \in Coordinates, y \in Coordinates, z \in {0, 1},
        rot \in Rotations, right \in {0, 1} }

\* A flat square with a vertex at each corner and nowhere else.
FlatSquare ==
    << Vector(-2, -2, 0), Vector(2, -2, 0), Vector(-2, 2, 0), Vector(2, 2, 0) >>

\* A mesh that spans one unit.
TinyVerts == << Vector(0, 0, 0), Vector(1, 1, 1) >>

\* A scene of two meshes: a flat one called workpiece, with or without the
\* vertices of a subdivision, and a tiny one called Ch17_Vest.
PairScenes ==
    { [n \in {"workpiece", "Ch17_Vest"} |->
         IF n = "workpiece"
         THEN Written(Object("MESH", flat, Vector(0, 0, 0), ""), Vector(x, y, 0), rot)
         ELSE Object("MESH", TinyVerts, Vector(ox, oy, oz), "")] :
        flat \in {FlatSquare, WorkpieceVerts}, rot \in Rotations,
        x \in Coordinates, y \in Coordinates,
        ox \in Coordinates, oy \in Coordinates, oz \in {0, 5} }

\* The calls made: is_point_within_xy_area on a point and an area,
\* collision_check_objects on the workpiece and the vest of a scene,
\* find_closest_distance_between_objects on the Hand and the Gloves of a
\* scene, collision_check_objects on two meshes and then on the two swapped.
Calls ==
    { [fn |-> "is_point_within_xy_area", point |-> Vector(x, y, 0),
       area |-> Area(min_x, max_x, min_y, max_y), scene |-> NoObjects] :
        x \in Coordinates, y \in Coordinates,
        min_x \in Coordinates, max_x \in Coordinates,
        min_y \in Coordinates, max_y \in Coordinates }
    \cup
    { [fn |-> "collision_check_objects", point |-> Vector(0, 0, 0),
       area |-> Area(0, 0, 0, 0), scene |-> scene] : scene \in ProbeScenes }
    \cup
    { [fn |-> "find_closest_distance_between_objects", point |-> Vector(0, 0, 0),
       area |-> Area(0, 0, 0, 0), scene |-> scene] : scene \in DistanceScenes }
    \cup
    { [fn |-> "collision_check_objects, both ways", point |-> Vector(0, 0, 0),
       area |-> Area(0, 0, 0, 0), scene |-> scene] : scene \in PairScenes }

FnInit ==
    /\ config = BaseConfig
    /\ scene_file = "scene.blend"
    /\ csv = NoFile
    /\ runs = 1
    /\ pc = "call"
    /\ Cleared
    /\ call \in Calls
    /\ ret = <<>>

\* The function called returns r.
Return(r) ==
    /\ ret' = <<r>>
    /\ pc' = "returned"
    /\ UNCHANGED <<config, scene_file, csv, err, i, num_images, objects, camera,
                   light, check1, check2, violation, distance, rendered, images,
                   appended, rounds, runs, call>>

call_is_point_within_xy_area ==
    /\ pc = "call"
    /\ call.fn = "is_point_within_xy_area"
    /\ Return(is_point_within_xy_area(call.point, call.area.min_x, call.area.max_x,
                                      call.area.min_y, call.area.max_y))

call_collision_check_objects ==
    /\ pc = "call"
    /\ call.fn = "collision_check_objects"
    /\ \E c \in {collision_check_objects(call.scene, "workpiece", "Ch17_Vest")} :
           Return(c.ret)

call_find_closest_distance_between_objects ==
    /\ pc = "call"
    /\ call.fn = "find_closest_distance_between_objects"
    /\ \E d \in {find_closest_distance_between_objects(call.scene, "Hand", "Gloves")} :
           Return(d.ret)

call_collision_check_objects_both_ways ==
    /\ pc = "call"
    /\ call.fn = "collision_check_objects, both ways"
    /\ \E c1 \in {collision_check_objects(call.scene, "workpiece", "Ch17_Vest")} :
         \E c2 \in {collision_check_objects(c1.scene, "Ch17_Vest", "workpiece")} :
           Return(<<c1.ret, c2.ret>>)

FnNext ==
    \/ call_is_point_within_xy_area
    \/ call_collision_check_objects
    \/ call_find_closest_distance_between_objects
    \/ call_collision_check_objects_both_ways

FnSpec == FnInit /\ [][FnNext]_vars

\* The vertices of obj in world space, by the properties of obj.
WorldVertices(obj) ==
    { MatMul(Transform(obj.location, obj.rotation, obj.scale), obj.verts[k]) :
        k \in DOMAIN obj.verts }

\* The corners of the bounding box of obj in world space, by the properties
\* of obj.
WorldBox(obj) ==
    { MatMul(Transform(obj.location, obj.rotation, obj.scale), Vector(x, y, z)) :
        x \in {MinOf(Xs(obj.verts)), MaxOf(Xs(obj.verts))},
        y \in {MinOf(Ys(obj.verts)), MaxOf(Ys(obj.verts))},
        z \in {MinOf(Zs(obj.verts)), MaxOf(Zs(obj.verts))} }

\* p lies between two of the corners in x, and between two of them in y.
Between(p, corners) ==
    /\ \E a \in corners, b \in corners : a.x <= p.x /\ p.x <= b.x
    /\ \E a \in corners, b \in corners : a.y <= p.y /\ p.y <= b.y

\* C6: for a mesh, collision_check_objects returns TRUE exactly when some
\* vertex of the probe, in world space, lies within the minimum and maximum
\* x and y of the eight world-space corners of the obstacle's bounding box,
\* whatever their z; for a probe that is absent or no mesh it returns FALSE.
C6_CollisionIffVertexInBoundingArea ==
    (call # <<>> /\ call.fn = "collision_check_objects" /\ ret # <<>>) =>
        ret[1] =
            /\ Get(call.scene, "workpiece").type = "MESH"
            /\ \E p \in WorldVertices(Get(call.scene, "workpiece")) :
                   Between(p, WorldBox(call.scene["Ch17_Vest"]))

\* C6's case: a collision is reported for a probe that lies wholly above the
\* obstacle.
C6_Witness ==
    /\ call # <<>>
    /\ call.fn = "collision_check_objects"
    /\ ret = <<TRUE>>
    /\ call.scene["workpiece"].location.z = 5

\* C7: is_point_within_xy_area is FALSE exactly when the point is left of
\* min_x, right of max_x, below min_y or above max_y: a point on the border
\* is inside.
C7_PointInAreaIsInclusive ==
    (call # <<>> /\ call.fn = "is_point_within_xy_area" /\ ret # <<>>) =>
        ret[1] =
            ~ \/ call.point.x < call.area.min_x
              \/ call.point.x > call.area.max_x
              \/ call.point.y < call.area.min_y
              \/ call.point.y > call.area.max_y

\* C7's case: a point on the corner (min_x, max_y) of a proper area is
\* classified inside.
C7_Witness ==
    /\ call # <<>>
    /\ call.fn = "is_point_within_xy_area"
    /\ ret = <<TRUE>>
    /\ call.point.x = call.area.min_x
    /\ call.point.y = call.area.max_y
    /\ call.area.min_x < call.area.max_x
    /\ call.area.min_y < call.area.max_y

(***************************************************************************)
(* The order of an iteration: claim C11                                    *)
(***************************************************************************)
\* The phase a statement of main's loop belongs to: 1 RESET, 2
\* RANDOMIZE_GLOBAL, 3 RANDOMIZE_ENTITIES, 4 RESOLVE_COLLISIONS, 5
\* AUDIT_SAFETY, 6 EMIT, 7 CLEANUP; 0 outside an iteration.
Phase(p) ==
    CASE p = "load_scene" -> 1
      [] p = "randomize_camera_and_light" -> 2
      [] p \in {"randomize_panda", "randomize_workpiece", "randomize_worker",
                "update"} -> 3
      [] p \in {"collision_check_scene", "while"} -> 4
      [] p = "safety_check" -> 5
      [] p \in {"render_scene", "log_to_csv"} -> 6
      [] p = "cleanup_scene" -> 7
      [] OTHER -> 0

\* The data rows of a log.
DataRows(file) == IF Len(file.rows) = 0 THEN 0 ELSE Len(file.rows) - 1

\* A step keeps the phase or enters the next one; an iteration starts with
\* RESET and is left after CLEANUP, or by an exception.
PhasesInOrder ==
    /\ Phase(pc) = 0 => Phase(pc') \in {0, 1}
    /\ Phase(pc) \in 1..6 => Phase(pc') \in {Phase(pc), Phase(pc) + 1} \/ pc' = "crashed"
    /\ Phase(pc) = 7 => pc' = "for"

\* The log is written only by the step from EMIT to CLEANUP, which appends
\* one row, holding the flag and the distance of this iteration's audit.
OneRecordPerIteration ==
    csv' # csv =>
        /\ pc = "log_to_csv" /\ pc' = "cleanup_scene"
        /\ rendered # <<>>
        /\ DataRows(csv') = DataRows(csv) + 1
        /\ SubSeq(csv'.rows, Len(csv'.rows) - DataRows(csv), Len(csv'.rows) - 1)
               = SubSeq(csv.rows, Len(csv.rows) - DataRows(csv) + 1, Len(csv.rows))
        /\ csv'.rows[Len(csv'.rows)][2] = violation
        /\ csv'.rows[Len(csv'.rows)][3] = distance
        /\ appended' = appended + 1

\* The records this run has appended are those of the iterations before the
\* current one, and the current one's once it is in CLEANUP; a run that
\* completes has appended NumberImages records.
RecordsFollowIterations ==
    /\ Phase(pc) \in 1..6 => appended = i
    /\ Phase(pc) = 7 => appended = i + 1
    /\ pc = "for" => appended = i
    /\ pc = "done" => appended = config["NumberImages"] /\ images = appended

\* C11: the steps of an iteration go through the phases RESET,
\* RANDOMIZE_GLOBAL, RANDOMIZE_ENTITIES, RESOLVE_COLLISIONS, AUDIT_SAFETY,
\* EMIT, CLEANUP in this order; the log receives one record per completed
\* iteration, after its audit and render and before its cleanup, in iteration
\* order; a completed run of N images has appended N records.
C11_PhasesInOrderOneRecordEach ==
    /\ [][PhasesInOrder /\ OneRecordPerIteration]_vars
    /\ [] RecordsFollowIterations

\* C11's case: a run of two images has completed, on a log that held rows.
C11_Witness ==
    /\ pc = "done"
    /\ config["NumberImages"] = 2
    /\ appended = 2
    /\ DataRows(csv) = PriorImages + 2

(***************************************************************************)
(* The closest distance on its own: claim C12                              *)
(***************************************************************************)
\* The vertices of the mesh called n, deformed by the pose of its armature,
\* in world space, by the properties of the objects.
DeformedWorld(scene, n) ==
    { MatMul(Transform(scene[n].location, scene[n].rotation, scene[n].scale),
             IF scene[n].armature \in DOMAIN scene
             THEN Vector(scene[n].verts[k].x + scene[scene[n].armature].pose.right,
                         scene[n].verts[k].y + scene[scene[n].armature].pose.left,
                         scene[n].verts[k].z)
             ELSE scene[n].verts[k]) :
        k \in DOMAIN scene[n].verts }

\* The squares of the distances over the cross product of two vertex sets.
SquaredDistances(ps, qs) ==
    { (p.x - q.x) * (p.x - q.x) + (p.y - q.y) * (p.y - q.y)
          + (p.z - q.z) * (p.z - q.z) : p \in ps, q \in qs }

\* The thresholds an audit can be configured with.
Thresholds == 0..(5 * MaxCoord)

\* d is the least of the distances whose squares are sqs, +infinity if there
\* is none; +infinity is below no threshold.
LeastDistance(d, sqs) ==
    IF sqs = {}
    THEN /\ d = Inf
         /\ \A t \in Thresholds : SafetyViolation(d, t) = 0
    ELSE /\ d.kind = "float"
         /\ d.sq \in sqs
         /\ \A sq \in sqs : d.sq <= sq

\* C12: for two meshes find_closest_distance_between_objects returns the
\* least Euclidean distance over the cross product of their deformed
\* world-space vertices; with a mesh of no vertex it returns +infinity, which
\* the comparison of safety_check turns into no violation.
C12_ClosestDistanceIsTheMinimum ==
    (call # <<>> /\ call.fn = "find_closest_distance_between_objects" /\ ret # <<>>) =>
        LeastDistance(ret[1],
                      SquaredDistances(DeformedWorld(call.scene, "Hand"),
                                       DeformedWorld(call.scene, "Gloves")))

\* C12's case: the single vertices (0, 0, 0) and (3, 4, 0) are 5 apart.
C12_Witness ==
    /\ call # <<>>
    /\ call.fn = "find_closest_distance_between_objects"
    /\ DeformedWorld(call.scene, "Hand") = {Vector(0, 0, 0)}
    /\ DeformedWorld(call.scene, "Gloves") = {Vector(3, 4, 0)}
    /\ ret = <<Float(5 * 5)>>

(***************************************************************************)
(* The collision test with its arguments swapped: claim C13                *)
(***************************************************************************)
\* q lies strictly between two of the corners in x and in y.
StrictlyBetween(q, corners) ==
    /\ \E a \in corners, b \in corners : a.x < q.x /\ q.x < b.x
    /\ \E a \in corners, b \in corners : a.y < q.y /\ q.y < b.y

\* The probe holds the obstacle in its interior, and no vertex of the probe
\* lies within the bounds of the obstacle.
HoldsInInterior(probe, obstacle) ==
    /\ \A q \in WorldBox(obstacle) : StrictlyBetween(q, WorldBox(probe))
    /\ \A p \in WorldVertices(probe) : ~ Between(p, WorldBox(obstacle))

\* C13: for a flat probe that holds a tiny obstacle in its interior with no
\* vertex of its own within the obstacle's bounds,
\* collision_check_objects(probe, obstacle) is FALSE and
\* collision_check_objects(obstacle, probe) is TRUE: the test is not symmetric.
C13_CollisionTestIsNotSymmetric ==
    (/\ call # <<>>
     /\ call.fn = "collision_check_objects, both ways"
     /\ ret # <<>>
     /\ HoldsInInterior(call.scene["workpiece"], call.scene["Ch17_Vest"])) =>
        ret[1] = <<FALSE, TRUE>>

\* C13's case: the two calls on such a pair have returned, and differ.
C13_Witness ==
    /\ call # <<>>
    /\ call.fn = "collision_check_objects, both ways"
    /\ ret # <<>>
    /\ HoldsInInterior(call.scene["workpiece"], call.scene["Ch17_Vest"])
    /\ ret[1][1] # ret[1][2]

(***************************************************************************)
(* Reads after writes: claim C14                                           *)
(***************************************************************************)
\* Some vertex of the workpiece lies in the bounding area of obstacle o, by
\* the properties the objects have now.
Hits(o) ==
    \E p \in WorldVertices(objects["workpiece"]) : Between(p, WorldBox(objects[o]))

\* C14: what the program reads of the geometry is what the latest writes
\* give: the two flags of collision_check_scene, after the initial checks and
\* after each resample, are those of the workpiece as it was last written,
\* and the distance of safety_check is that of the Hand and the Gloves as
\* last posed and placed.
C14_ReadsSeeTheLatestWrites ==
    /\ pc = "while" => check1 = Hits("Ch17_Vest") /\ check2 = Hits("Link-0")
    /\ pc = "render_scene" =>
           LeastDistance(distance,
                         SquaredDistances(DeformedWorld(objects, "Hand"),
                                          DeformedWorld(objects, "Gloves")))

\* C14's case: the flags were read after a resample that moved the workpiece
\* off the place the scene was last evaluated at before the loop.
C14_Witness ==
    /\ pc = "while"
    /\ rounds >= 1
    /\ check1 /\ ~ check2
    /\ objects["workpiece"].location.x = 2

(***************************************************************************)
(* What the placement loop writes: claim C15                               *)
(***************************************************************************)
\* The transform and pose an object was given.
Properties(obj) == <<obj.location, obj.rotation, obj.scale, obj.pose>>

\* A step of collision_check_scene leaves the camera, the light and every
\* object but the workpiece as they are, writes the workpiece only when a
\* check has reported a collision, and returns at once when none has.
ResolverFrame ==
    Phase(pc) = 4 =>
        /\ camera' = camera
        /\ light' = light
        /\ DOMAIN objects' = DOMAIN objects
        /\ \A n \in DOMAIN objects \ {"workpiece"} : objects'[n] = objects[n]
        /\ objects'["workpiece"].verts = objects["workpiece"].verts
        /\ objects'["workpiece"].type = objects["workpiece"].type
        /\ Properties(objects'["workpiece"]) # Properties(objects["workpiece"]) =>
               pc = "while" /\ (check1 \/ check2)
        /\ (pc = "while" /\ ~ check1 /\ ~ check2) =>
               pc' = "safety_check" /\ objects' = objects

\* C15: collision_check_scene writes nothing but the workpiece's transform,
\* and that only after a check has reported a collision: with both initial
\* checks false it returns without drawing again, the workpiece as
\* randomize_workpiece left it; obstacles, worker, tool point, camera and
\* light are as they were.
C15_ResolverWritesOnlyTheWorkpiece == [][ResolverFrame]_vars

\* C15's case: collision_check_scene has returned without a resample, the
\* workpiece where main's randomize_workpiece put it.
C15_Witness ==
    /\ pc = "safety_check"
    /\ rounds = 0
    /\ objects["workpiece"].location.x = 1
    /\ objects["workpiece"].rotation = 1

====
